---- MODULE Spec2Model ----
(***************************************************************************)
(* TaskMaster Pro: the persistence layer (taskmaster/db/database.py) over  *)
(* the task entity (taskmaster/models/task.py).                            *)
(*                                                                         *)
(* The SQLite file is the record db = [tasks, tags, task_tags, seq]: three *)
(* tables as sets of rows and the sqlite_sequence counters that            *)
(* AUTOINCREMENT keeps.  Text columns hold what the code writes to them:   *)
(* the priority's member name, the status's value, and isoformat() strings *)
(* for the timestamps.                                                     *)
(*                                                                         *)
(* Optional values (Optional[int], Optional[datetime], Optional[Task]) are *)
(* sequences of length at most one: None is << >>, a value x is << x >>.   *)
(*                                                                         *)
(* The settings (taskmaster/utils/settings.py) and the main window         *)
(* (taskmaster/views/main_window.py) have their own variables and their    *)
(* own specifications, SpecSettings and SpecWindow.                        *)
(***************************************************************************)
EXTENDS Integers, Sequences, FiniteSets, TLC

VARIABLES
    db,     \* the committed (durable) content of the database file
    clock,  \* the latest reading of datetime.now(), in ticks
    last,   \* what happened last: the operation called, its argument and result
    issued, \* history: the identities add_task has returned so far
    txn,    \* the operation in progress on an open connection, statement by statement
    conns,  \* the connections to the file that are open, counted up to MaxConns
    settings, \* the Settings object, the class-level DEFAULTS and the settings file
    window  \* the main window: filter, search text, sort order and the list shown

vars == <<db, clock, last, issued, txn, conns, settings, window>>

(***************************************************************************)
(* Bounds of the model.                                                    *)
(***************************************************************************)
MaxTasks == 2     \* add_task is called at most this many times
MaxClock == 1     \* the clock stops at this tick
MaxTagLen == 2    \* a task's tag list has at most this many entries
MaxConns == 2     \* open connections are counted up to this many

None == << >>
Some(x) == << x >>


(***************************************************************************)
(* datetime.  A datetime is [s, us]: whole seconds and microseconds.       *)
(* One tick of the clock is half a second's worth of microseconds, so that *)
(* readings with and without a microsecond part both occur.                *)
(***************************************************************************)
DT(t) == [s |-> t \div 2, us |-> t % 2]

DtLeq(a, b) == a.s < b.s \/ (a.s = b.s /\ a.us <= b.us)

\* Mutant: isoformat(timespec='seconds'), which never writes microseconds.
isoformat_seconds(d) == << d.s >>

\* datetime.isoformat(): the microsecond part is written only when it is not 0.
isoformat(d) == IF d.us = 0 THEN << d.s >> ELSE << d.s, d.us >>

\* datetime.fromisoformat(): a string without a fraction has microsecond 0.
fromisoformat(str) == [s |-> str[1], us |-> IF Len(str) >= 2 THEN str[2] ELSE 0]

\* A NULL of a TEXT column; like '' it is falsy in Python.
NULL == << >>

(***************************************************************************)
(* The enumerations of models/task.py: members with name and value.        *)
(***************************************************************************)
Priority == { [name |-> "LOW", value |-> 1],
              [name |-> "MEDIUM", value |-> 2],
              [name |-> "HIGH", value |-> 3] }

Status == { [name |-> "TODO", value |-> "To Do"],
            [name |-> "IN_PROGRESS", value |-> "In Progress"],
            [name |-> "COMPLETED", value |-> "Completed"],
            [name |-> "ARCHIVED", value |-> "Archived"] }

PriorityMember(n) == CHOOSE p \in Priority : p.name = n
StatusMember(n) == CHOOSE s \in Status : s.name = n

\* Priority[name]: the members with that name (none: KeyError).
PriorityByName(str) == { p \in Priority : p.name = str }

\* Status(value): the members with that value (none: ValueError).
StatusByValue(str) == { s \in Status : s.value = str }

(***************************************************************************)
(* Task.__init__: tags or [], created_at or now(), updated_at or now().    *)
(* now1 and now2 are the two readings of datetime.now(), in that order.    *)
(***************************************************************************)
Task(title, description, priority, status, due_date, tags, created_at, updated_at, now1, now2) ==
    [ id          |-> None,
      title       |-> title,
      description |-> description,
      priority    |-> priority,
      status      |-> status,
      due_date    |-> due_date,
      tags        |-> IF tags = << >> THEN << >> ELSE tags,
      created_at  |-> IF created_at # None THEN created_at[1] ELSE now1,
      updated_at  |-> IF updated_at # None THEN updated_at[1] ELSE now2 ]

(***************************************************************************)
(* SQL statements, as functions of the database content d.                 *)
(***************************************************************************)
SetMax(S) == CHOOSE x \in S : \A y \in S : y <= x

\* Mutant: INTEGER PRIMARY KEY without AUTOINCREMENT, one more than the
\* largest rowid now in the table.
NextRowid_reuse(rows, seqval) ==
    (IF rows = {} THEN 0 ELSE SetMax({ r.id : r \in rows })) + 1

\* The rowid AUTOINCREMENT gives: one more than the largest rowid the table
\* has ever held (sqlite_sequence), never a rowid used before.
NextRowid(rows, seqval) ==
    LET largest == IF rows = {} THEN 0 ELSE SetMax({ r.id : r \in rows })
    IN  (IF seqval >= largest THEN seqval ELSE largest) + 1

\* The VALUES of add_task's INSERT INTO tasks.
TaskRow(rowid, task) ==
    [ id          |-> rowid,
      title       |-> task.title,
      description |-> task.description,
      priority    |-> task.priority.name,
      status      |-> task.status.value,
      due_date    |-> IF task.due_date # None THEN isoformat(task.due_date[1]) ELSE NULL,
      created_at  |-> isoformat(task.created_at),
      updated_at  |-> isoformat(task.updated_at) ]

\* INSERT INTO tasks (...) VALUES (...); cursor.lastrowid is the new seq.tasks.
InsertTask(d, task) ==
    LET rowid == NextRowid(d.tasks, d.seq.tasks)
    IN  [d EXCEPT !.tasks = @ \cup { TaskRow(rowid, task) },
                  !.seq.tasks = rowid]

\* Mutant: updated_at = task.updated_at.isoformat(), and created_at is
\* written from the task as well.
UpdatedRow_from_task(row, task, now) ==
    [row EXCEPT !.title = task.title,
                !.description = task.description,
                !.priority = task.priority.name,
                !.status = task.status.value,
                !.due_date = IF task.due_date # None
                             THEN isoformat(task.due_date[1]) ELSE NULL,
                !.created_at = isoformat(task.created_at),
                !.updated_at = isoformat(task.updated_at)]

\* The SET clause of update_task's UPDATE, applied to one row.
UpdatedRow(row, task, now) ==
    [row EXCEPT !.title = task.title,
                !.description = task.description,
                !.priority = task.priority.name,
                !.status = task.status.value,
                !.due_date = IF task.due_date # None
                             THEN isoformat(task.due_date[1]) ELSE NULL,
                !.updated_at = isoformat(now)]

\* The rows UPDATE tasks ... WHERE id = ? matches (task.id is not None here).
MatchingRows(d, id) == { r \in d.tasks : r.id = id }

\* Mutant: UPDATE tasks SET ... without the WHERE clause.
UpdateTaskRow_all(d, task, now) ==
    [d EXCEPT !.tasks = { UpdatedRow(r, task, now) : r \in d.tasks }]

\* UPDATE tasks SET ... WHERE id = ?
UpdateTaskRow(d, task, now) ==
    [d EXCEPT !.tasks = { IF r.id = task.id[1] THEN UpdatedRow(r, task, now) ELSE r
                          : r \in d.tasks }]

\* Mutant: the delete also prunes the tags that only the deleted task had.
DeleteTaskRow_prune(d, id, fk) ==
    LET links == { l \in d.task_tags : l.task_id # id }
    IN  [d EXCEPT !.tasks = { r \in @ : r.id # id },
                  !.task_tags = links,
                  !.tags = { t \in @ : \E l \in links : l.tag_id = t.id }]

\* DELETE FROM tasks WHERE id = ? on a connection whose foreign_keys pragma is
\* fk: ON DELETE CASCADE acts only when the pragma is on for that connection.
DeleteTaskRow(d, id, fk) ==
    [d EXCEPT !.tasks = { r \in @ : r.id # id },
              !.task_tags = IF fk THEN { l \in @ : l.task_id # id } ELSE @]

\* Mutant: the old associations are kept.
DeleteLinks_none(d, task_id) == d

\* DELETE FROM task_tags WHERE task_id = ?
DeleteLinks(d, task_id) ==
    [d EXCEPT !.task_tags = { l \in @ : l.task_id # task_id }]

\* INSERT INTO tags (name) VALUES (?), on a name no row has.
InsertTag(d, tag_name) ==
    LET newid == NextRowid(d.tags, d.seq.tags)
    IN  [d EXCEPT !.tags = @ \cup { [id |-> newid, name |-> tag_name] },
                  !.seq.tags = newid]

\* Mutant: INSERT INTO tags (name) without the SELECT, on a name column that
\* is not UNIQUE.
EnsureTag_insert(d, tag_name) == InsertTag(d, tag_name)

\* SELECT id FROM tags WHERE name = ?, and INSERT INTO tags (name) when
\* there is no such row.
EnsureTag(d, tag_name) ==
    IF \E t \in d.tags : t.name = tag_name
    THEN d
    ELSE LET newid == NextRowid(d.tags, d.seq.tags)
         IN  [d EXCEPT !.tags = @ \cup { [id |-> newid, name |-> tag_name] },
                       !.seq.tags = newid]

\* tag_id: the id of the row found, or cursor.lastrowid of the INSERT.
TagId(d, tag_name) == (CHOOSE t \in d.tags : t.name = tag_name).id

\* INSERT OR IGNORE INTO task_tags (task_id, tag_id)
InsertLink(d, task_id, tag_id) ==
    [d EXCEPT !.task_tags = @ \cup { [task_id |-> task_id, tag_id |-> tag_id] }]

\* One turn of _update_task_tags' loop.
LinkTag(d, task_id, tag_name) ==
    LET d1 == EnsureTag(d, tag_name)
    IN  InsertLink(d1, task_id, TagId(d1, tag_name))

RECURSIVE LinkTags(_, _, _)
LinkTags(d, task_id, tags) ==
    IF tags = << >> THEN d
    ELSE LinkTags(LinkTag(d, task_id, Head(tags)), task_id, Tail(tags))

\* Database._update_task_tags
UpdateTaskTags(d, task_id, tags) ==
    LET d1 == DeleteLinks(d, task_id)
    IN  IF tags = << >> THEN d1 ELSE LinkTags(d1, task_id, tags)

(***************************************************************************)
(* Database._get_connection: sqlite3.connect(db_path) with its defaults.   *)
(* The foreign_keys pragma is a setting of one connection and is off on a  *)
(* new one; _init_db turns it on for the connection it opened itself.      *)
(* isolation_level "" (DEFERRED) makes the module open a transaction       *)
(* before the first INSERT, UPDATE or DELETE; nothing is durable until     *)
(* commit().  With isolation_level "AUTOCOMMIT" (None in Python) each      *)
(* statement would be durable at once.                                     *)
(***************************************************************************)
\* Mutant: sqlite3.connect(db_path, isolation_level=None).
GetConnection_autocommit == [foreign_keys |-> FALSE, isolation_level |-> "AUTOCOMMIT"]

GetConnection == [foreign_keys |-> FALSE, isolation_level |-> "DEFERRED"]

\* The open connections after one more sqlite3.connect().  No operation calls
\* close(): leaving "with conn:" commits or rolls back and leaves the
\* connection open, until the garbage collector finalizes it.
Connect(n) == IF n < MaxConns THEN n + 1 ELSE MaxConns

(***************************************************************************)
(* Reading rows back.                                                      *)
(***************************************************************************)
RECURSIVE SortedIds(_)
SortedIds(S) ==
    IF S = {} THEN << >>
    ELSE LET m == CHOOSE x \in S : \A y \in S : x <= y
         IN  << m >> \o SortedIds(S \ {m})

\* SELECT t.name FROM tags t JOIN task_tags tt ON t.id = tt.tag_id
\* WHERE tt.task_id = ?   (rows come in task_tags' primary-key order)
TagNames(d, task_id) ==
    LET ids == SortedIds({ l.tag_id : l \in { x \in d.task_tags : x.task_id = task_id
                                               /\ \E t \in d.tags : t.id = x.tag_id } })
    IN  [i \in 1..Len(ids) |-> (CHOOSE t \in d.tags : t.id = ids[i]).name]

\* Mutant: an unknown priority reads as MEDIUM and an unknown status as TODO.
RowToTask_default(row, tags) ==
    LET t == Task(row.title, row.description,
                  IF PriorityByName(row.priority) = {} THEN PriorityMember("MEDIUM")
                  ELSE CHOOSE p \in PriorityByName(row.priority) : TRUE,
                  IF StatusByValue(row.status) = {} THEN StatusMember("TODO")
                  ELSE CHOOSE st \in StatusByValue(row.status) : TRUE,
                  IF row.due_date # NULL THEN Some(fromisoformat(row.due_date)) ELSE None,
                  tags,
                  Some(fromisoformat(row.created_at)),
                  Some(fromisoformat(row.updated_at)),
                  fromisoformat(row.created_at), fromisoformat(row.updated_at))
    IN  [exc |-> "none", task |-> Some([t EXCEPT !.id = Some(row.id)])]

\* Database._row_to_task.  exc names the exception raised, "none" when the
\* row converts; task is then the Task built, with its id set from the row.
RowToTask(row, tags) ==
    IF PriorityByName(row.priority) = {}
    THEN [exc |-> "KeyError", task |-> None]
    ELSE IF StatusByValue(row.status) = {}
    THEN [exc |-> "ValueError", task |-> None]
    ELSE LET t == Task(row.title, row.description,
                       CHOOSE p \in PriorityByName(row.priority) : TRUE,
                       CHOOSE s \in StatusByValue(row.status) : TRUE,
                       IF row.due_date # NULL THEN Some(fromisoformat(row.due_date)) ELSE None,
                       tags,
                       Some(fromisoformat(row.created_at)),
                       Some(fromisoformat(row.updated_at)),
                       fromisoformat(row.created_at), fromisoformat(row.updated_at))
         IN  [exc |-> "none", task |-> Some([t EXCEPT !.id = Some(row.id)])]

\* Mutant: the task is returned without its tags.
get_task_no_tags(d, task_id) ==
    LET rows == MatchingRows(d, task_id)
    IN  IF rows = {}
        THEN [db |-> d, exc |-> "none", ret |-> None]
        ELSE LET r == RowToTask(CHOOSE row \in rows : TRUE, << >>)
             IN  [db |-> d, exc |-> r.exc, ret |-> r.task]

\* Database.get_task: ret is None or the Task.
get_task(d, task_id) ==
    LET rows == MatchingRows(d, task_id)
    IN  IF rows = {}
        THEN [db |-> d, exc |-> "none", ret |-> None]
        ELSE LET r == RowToTask(CHOOSE row \in rows : TRUE, TagNames(d, task_id))
             IN  [db |-> d, exc |-> r.exc, ret |-> r.task]

\* Mutant: the status filter is ignored.
SelectedRows_all(d, status) == d.tasks

\* The rows get_all_tasks selects: WHERE status = ? when a status is given.
SelectedRows(d, status) ==
    IF status # None THEN { r \in d.tasks : r.status = status[1].value } ELSE d.tasks

\* Database.get_all_tasks: ret is the list of Tasks, in rowid order.
get_all_tasks(d, status) ==
    LET rows == SelectedRows(d, status)
        ids == SortedIds({ r.id : r \in rows })
        conv == [i \in 1..Len(ids) |->
                    RowToTask(CHOOSE r \in rows : r.id = ids[i], TagNames(d, ids[i]))]
        bad == { i \in 1..Len(ids) : conv[i].exc # "none" }
    IN  IF bad # {}
        THEN [db |-> d, exc |-> conv[CHOOSE i \in bad : \A j \in bad : i <= j].exc, ret |-> << >>]
        ELSE [db |-> d, exc |-> "none", ret |-> [i \in 1..Len(ids) |-> conv[i].task[1]]]

(***************************************************************************)
(* The writing operations, each as the whole transaction it commits.       *)
(***************************************************************************)
\* Database.add_task: ret is cursor.lastrowid of the INSERT INTO tasks; task
\* is the entity as the call leaves it (it assigns to none of its attributes).
add_task(d, task) ==
    LET d1 == InsertTask(d, task)
        task_id == d1.seq.tasks
    IN  [db |-> IF task.tags # << >> THEN UpdateTaskTags(d1, task_id, task.tags) ELSE d1,
         exc |-> "none", ret |-> task_id, task |-> task]

\* Mutant: the tags are synchronised before rowcount is looked at.
update_task_tags_first(d, task, now) ==
    IF task.id = None
    THEN [db |-> d, exc |-> "none", ret |-> FALSE]
    ELSE [db |-> UpdateTaskTags(UpdateTaskRow(d, task, now), task.id[1], task.tags),
          exc |-> "none", ret |-> Cardinality(MatchingRows(d, task.id[1])) > 0]

\* Database.update_task; now is the datetime.now() of the UPDATE's parameters.
update_task(d, task, now) ==
    IF task.id = None
    THEN [db |-> d, exc |-> "none", ret |-> FALSE]
    ELSE IF Cardinality(MatchingRows(d, task.id[1])) = 0
    THEN [db |-> UpdateTaskRow(d, task, now), exc |-> "none", ret |-> FALSE]
    ELSE [db |-> UpdateTaskTags(UpdateTaskRow(d, task, now), task.id[1], task.tags),
          exc |-> "none", ret |-> TRUE]

\* Mutant: deleted = cursor.rowcount >= 0.
delete_task_always(d, task_id) ==
    [db |-> DeleteTaskRow(d, task_id, GetConnection.foreign_keys),
     exc |-> "none", ret |-> Cardinality(MatchingRows(d, task_id)) >= 0]

\* Database.delete_task
delete_task(d, task_id) ==
    [db |-> DeleteTaskRow(d, task_id, GetConnection.foreign_keys),
     exc |-> "none", ret |-> Cardinality(MatchingRows(d, task_id)) > 0]

(***************************************************************************)
(* Settings (taskmaster/utils/settings.py): a tree of dicts addressed by   *)
(* dotted keys.  A value is tagged by its type: [str |-> "light"],         *)
(* [int |-> 7], [bool |-> TRUE], [none |-> TRUE], or [dict |-> f] with f a *)
(* function from keys.  DEFAULTS is a class attribute, one dict of dicts   *)
(* for the life of the process, and dict.copy() is shallow: the copy has   *)
(* its own top level and the same nested dict objects.  The state is       *)
(*   settings.DEFAULTS  what the nested dicts of the class attribute hold, *)
(*   settings.tree      the top level of self._settings: a key is bound to *)
(*                      [ref |-> k], the nested dict object DEFAULTS[k],   *)
(*                      or to [val |-> v], a value of its own,             *)
(*   settings.file      the settings file.                                 *)
(* A process has two Settings objects on that file, the module's global    *)
(* instance (settings.py, "settings = Settings()") and the one main()      *)
(* makes; both top levels are copies of the one DEFAULTS.  settings.tree   *)
(* is the top level of main()'s object and settings.other that of the      *)
(* global instance, when both have been made.                              *)
(***************************************************************************)
PyNone == [none |-> TRUE]
IsDict(v) == "dict" \in DOMAIN v

\* The class attribute as the source writes it.
DEFAULTS ==
    [app |-> [version |-> [str |-> "1.0.0"], theme |-> [str |-> "light"],
              window_geometry |-> PyNone, window_state |-> PyNone],
     tasks |-> [default_priority |-> [str |-> "MEDIUM"], default_due_days |-> [int |-> 7],
                show_completed |-> [bool |-> TRUE]],
     notifications |-> [enabled |-> [bool |-> TRUE], sound |-> [bool |-> TRUE],
                        reminder_minutes |-> [int |-> 15]],
     backup |-> [auto_backup |-> [bool |-> TRUE], backup_location |-> [str |-> ""],
                 backup_interval_days |-> [int |-> 7]]]

\* key.split('.'): a key is the sequence of its names and "." characters,
\* with at most one name between two dots; no name gives the part ''.
RECURSIVE split(_)
split(key) ==
    IF \A i \in 1..Len(key) : key[i] # "."
    THEN << IF key = << >> THEN "" ELSE key[1] >>
    ELSE LET dot == CHOOSE i \in 1..Len(key) :
                       key[i] = "." /\ \A j \in 1..(i - 1) : key[j] # "."
         IN  << IF dot = 1 THEN "" ELSE key[1] >>
             \o split(SubSeq(key, dot + 1, Len(key)))

\* DEFAULTS.copy(): a new top level bound to the nested dicts of DEFAULTS.
copy(defaults) == [k \in DOMAIN defaults |-> [ref |-> k]]

\* self._settings as a value: each reference followed.
Tree(s) ==
    [dict |-> [k \in DOMAIN s.tree |->
            IF "ref" \in DOMAIN s.tree[k] THEN [dict |-> s.DEFAULTS[s.tree[k].ref]]
            ELSE s.tree[k].val]]

\* self._settings becomes top.  A key in rebound is bound to a new value; any
\* other key that was bound to a nested dict of DEFAULTS still is, and
\* what was written in it was written in that dict.
Store(s, top, rebound) ==
    LET shared(k) == /\ k \in DOMAIN s.tree
                     /\ "ref" \in DOMAIN s.tree[k]
                     /\ k \notin rebound
    IN  [s EXCEPT
           !.tree = [k \in DOMAIN top |->
                       IF shared(k) THEN s.tree[k] ELSE [val |-> top[k]]],
           !.DEFAULTS = [d \in DOMAIN s.DEFAULTS |->
                           IF d \in DOMAIN top /\ shared(d) THEN top[d].dict
                           ELSE s.DEFAULTS[d]]]

\* value = value[k] for each k of keys: KeyError when a dict has no k,
\* TypeError when value is not a dict.
RECURSIVE Walk(_, _)
Walk(value, keys) ==
    IF keys = << >> THEN [exc |-> "none", value |-> value]
    ELSE IF ~IsDict(value) THEN [exc |-> "TypeError"]
    ELSE IF Head(keys) \notin DOMAIN value.dict THEN [exc |-> "KeyError"]
    ELSE Walk(value.dict[Head(keys)], Tail(keys))

\* Settings.get(key, default): except (KeyError, TypeError): return default.
get(s, key, default) ==
    LET r == Walk(Tree(s), split(key))
    IN  IF r.exc = "none" THEN r.value ELSE default

\* The body of set's try block on current: walk keys[:-1], making {} for a
\* key that is absent, then current[keys[-1]] = value.  A value on the way
\* that is not a dict raises TypeError before anything is written.
RECURSIVE Assign(_, _, _)
Assign(current, keys, value) ==
    IF ~IsDict(current) THEN [exc |-> "TypeError"]
    ELSE IF Len(keys) = 1
    THEN [exc |-> "none",
          value |-> [dict |-> [k \in DOMAIN current.dict \cup { keys[1] } |->
                            IF k = keys[1] THEN value ELSE current.dict[k]]]]
    ELSE LET k == Head(keys)
             below == Assign(IF k \in DOMAIN current.dict THEN current.dict[k]
                             ELSE [dict |-> [e \in {} |-> PyNone]],
                             Tail(keys), value)
         IN  IF below.exc # "none" THEN below
             ELSE [exc |-> "none",
                   value |-> [dict |-> [j \in DOMAIN current.dict \cup { k } |->
                                     IF j = k THEN below.value
                                     ELSE current.dict[j]]]]

\* json.dump(self._settings, f) and json.load(f), [json |-> value]: keys are strings and the
\* values strings, integers, booleans, None and dicts of these, which JSON
\* writes and reads back as they are.
NoFile == [exists |-> FALSE]

\* What save() does to the file.  os.makedirs or open(filename, 'w') raises
\* and the file is as it was; or open has truncated the file and json.dump,
\* or the close of the with block, raises when text has been written,
\* nothing or the beginning of the JSON text; or the whole tree is written.
SaveOutcomes ==
    { [opened |-> FALSE], [opened |-> TRUE, text |-> ""],
      [opened |-> TRUE, text |-> "{"], [opened |-> TRUE, dumped |-> TRUE] }

\* Settings.save(): the file holds the tree and True is returned; on
\* IOError False, with the file as the failed write left it.
save(s, io) ==
    IF ~io.opened THEN [settings |-> s, ret |-> FALSE]
    ELSE IF "text" \in DOMAIN io
    THEN [settings |-> [s EXCEPT !.file = [text |-> io.text]], ret |-> FALSE]
    ELSE [settings |-> [s EXCEPT !.file = [json |-> Tree(s)]], ret |-> TRUE]

\* Settings.set(key, value, save_immediately).
set(s, key, value, save_immediately, io) ==
    LET keys == split(key)
        r == Assign(Tree(s), keys, value)
        stored == Store(s, r.value.dict, IF Len(keys) = 1 THEN { keys[1] } ELSE {})
    IN  IF r.exc # "none" THEN [settings |-> s, ret |-> FALSE]
        ELSE IF save_immediately THEN save(stored, io)
        ELSE [settings |-> stored, ret |-> TRUE]

\* Settings._deep_update(original, update) on two dicts.
RECURSIVE deep_update(_, _)
deep_update(original, update) ==
    [k \in DOMAIN original \cup DOMAIN update |->
       IF k \notin DOMAIN update THEN original[k]
       ELSE IF IsDict(update[k]) /\ k \in DOMAIN original /\ IsDict(original[k])
       THEN [dict |-> deep_update(original[k].dict, update[k].dict)]
       ELSE update[k]]

\* Settings.load(): no file, True; a file that is not JSON, False
\* (JSONDecodeError); JSON that is no dict has no items(), AttributeError.
load(s) ==
    IF s.file = NoFile THEN [settings |-> s, exc |-> "none", ret |-> TRUE]
    ELSE IF "json" \notin DOMAIN s.file
    THEN [settings |-> s, exc |-> "none", ret |-> FALSE]
    ELSE IF ~IsDict(s.file.json)
    THEN [settings |-> s, exc |-> "AttributeError", ret |-> FALSE]
    ELSE LET original == Tree(s).dict
             update == s.file.json.dict
             rebound == { k \in DOMAIN update :
                            ~(IsDict(update[k]) /\ k \in DOMAIN original
                              /\ IsDict(original[k])) }
         IN  [settings |-> Store(s, deep_update(original, update), rebound),
              exc |-> "none", ret |-> TRUE]

\* Settings.__init__(filename) in a process whose DEFAULTS holds defaults.
Settings(defaults, file) ==
    load([DEFAULTS |-> defaults, tree |-> copy(defaults), file |-> file]).settings

\* Settings.reset_to_defaults().
reset_to_defaults(s, io) ==
    save([s EXCEPT !.tree = copy(s.DEFAULTS)], io)

\* Settings.__contains__(key): try: self.get(key); return True
\* except KeyError: return False.  get catches KeyError and TypeError
\* itself and returns the default, so nothing is raised whatever the key.
contains(s, key) ==
    LET raised == "none"
    IN  raised # "KeyError"

(***************************************************************************)
(* The main window (taskmaster/views/main_window.py).  The strings of the  *)
(* model have at most one character.  window is                            *)
(*   names           the names bound in the module's namespace,            *)
(*   open            whether MainWindow() has returned a window,           *)
(* and for an open window                                                  *)
(*   current_filter  self.current_filter,                                  *)
(*   search_box      self.search_box.text(),                               *)
(*   sort_combo      self.sort_combo.currentText(),                        *)
(*   task_list       the Tasks the items of self.task_list were made for,  *)
(*                   top to bottom,                                        *)
(*   now             the datetime.now() the last load_tasks filtered with. *)
(***************************************************************************)
\* The names the import statements of main_window.py bind.  load_tasks
\* looks up datetime, which is not among them: NameError.
Imported ==
    { "QShortcut", "QMainWindow", "QWidget", "QVBoxLayout", "QHBoxLayout",
      "QPushButton", "QListWidget", "QListWidgetItem", "QLabel", "QFrame",
      "QSplitter", "QToolBar", "QStatusBar", "QComboBox", "QLineEdit", "QStyle",
      "QMessageBox", "Qt", "QSize", "pyqtSignal", "QTimer", "QIcon", "QAction",
      "QPixmap", "QColor", "QPalette", "qta", "db", "Task", "Status", "Priority",
      "TaskDialog" }

\* The main window before MainWindow() is called.
NoWindow == [open |-> FALSE, names |-> Imported]

\* str.lower() and ord() on the characters the model uses.
lower(str) == IF str = "A" THEN "a" ELSE IF str = "B" THEN "b"
              ELSE IF str = "X" THEN "x" ELSE str
Ord(str) ==
    IF str = "" THEN << >>
    ELSE << [A |-> 65, B |-> 66, X |-> 88, a |-> 97, b |-> 98, d |-> 100,
             x |-> 120, y |-> 121][str] >>

\* search in text, for strings of at most one character.
IsIn(search, text) == search = "" \/ search = text

\* datetime.date(), in days of 86400 seconds.
date(d) == d.s \div 86400

\* The list comprehension load_tasks applies for self.current_filter.
FilterKeeps(t, current_filter, now) ==
    CASE current_filter = "Today" ->
           t.due_date # None /\ date(t.due_date[1]) = date(now)
      [] current_filter = "Upcoming" ->
           /\ t.due_date # None
           /\ date(t.due_date[1]) > date(now)
           /\ t.status # StatusMember("COMPLETED")
      [] current_filter = "Completed" -> t.status = StatusMember("COMPLETED")
      [] current_filter = "Overdue" ->
           /\ t.due_date # None
           /\ ~DtLeq(now, t.due_date[1])
           /\ t.status # StatusMember("COMPLETED")
      [] OTHER -> TRUE

\* The list comprehension load_tasks applies for search = filter_text.lower().
SearchKeeps(t, search) ==
    \/ IsIn(search, lower(t.title))
    \/ (t.description # "" /\ IsIn(search, lower(t.description)))
    \/ \E i \in 1..Len(t.tags) : IsIn(search, lower(t.tags[i]))

\* The sort keys, as sequences of integers compared like tuples.
RECURSIVE LexLess(_, _)
LexLess(a, b) ==
    IF a = << >> THEN b # << >>
    ELSE IF b = << >> THEN FALSE
    ELSE IF a[1] # b[1] THEN a[1] < b[1]
    ELSE LexLess(Tail(a), Tail(b))

\* (t.due_date is None, t.due_date or datetime.max); priority.value with
\* reverse=True; title.lower().
SortKey(t, sort_by) ==
    IF sort_by = "Sort by: Due Date"
    THEN IF t.due_date = None THEN << 1 >>
         ELSE << 0, t.due_date[1].s, t.due_date[1].us >>
    ELSE IF sort_by = "Sort by: Priority" THEN << 0 - t.priority.value >>
    ELSE Ord(lower(t.title))

\* list.sort is stable: of two entries with equal keys the earlier stays
\* first.  The positions of S in the order of their keys ks.
RECURSIVE OrderOf(_, _)
OrderOf(ks, S) ==
    IF S = {} THEN << >>
    ELSE LET m == CHOOSE i \in S : \A j \in S \ { i } :
                     LexLess(ks[i], ks[j]) \/ (ks[i] = ks[j] /\ i < j)
         IN  << m >> \o OrderOf(ks, S \ { m })

\* MainWindow.load_tasks(filter_text) on the stored tasks d.  now1 is the
\* datetime.now() of the filters; the overdue test reads datetime.now() once
\* for each task of the sorted list that has a due date: nows[k] is the
\* k-th of these readings, and reads is how many were made.  The list is
\* cleared first; then db.get_all_tasks() is called, and what it raises
\* leaves load_tasks; then datetime is looked up.  task_list holds the Task
\* each item was made for.
load_tasks(w, d, filter_text, now1, nows) ==
    LET Filtered(t) == FilterKeeps(t, w.current_filter, now1)
        Searched(t) == SearchKeeps(t, lower(filter_text[1]))
        Search(filtered) == IF filter_text # None /\ filter_text[1] # ""
                            THEN SelectSeq(filtered, Searched) ELSE filtered
        Sort(searched) ==
            LET ks == [i \in 1..Len(searched) |-> SortKey(searched[i], w.sort_combo)]
                order == OrderOf(ks, 1..Len(searched))
            IN  [i \in 1..Len(searched) |-> searched[order[i]]]
        Due(sorted, i) == { j \in 1..i : sorted[j].due_date # None }
        Overdue(sorted, i) ==
            /\ sorted[i].due_date # None
            /\ ~DtLeq(nows[Cardinality(Due(sorted, i))], sorted[i].due_date[1])
        OverdueFirst(sorted) ==
            LET overdue == { i \in 1..Len(sorted) : Overdue(sorted, i) }
                order == SortedIds(overdue) \o SortedIds((1..Len(sorted)) \ overdue)
            IN  [i \in 1..Len(sorted) |-> sorted[order[i]]]
        Shown(sorted) ==
            [window |-> [w EXCEPT !.task_list = OverdueFirst(sorted), !.now = now1],
             exc |-> "none", reads |-> Cardinality(Due(sorted, Len(sorted)))]
        Raised(exc) ==
            [window |-> [w EXCEPT !.task_list = << >>], exc |-> exc, reads |-> 0]
        Read(tasks) ==
            IF tasks.exc # "none" THEN Raised(tasks.exc)
            ELSE IF "datetime" \notin w.names THEN Raised("NameError")
            ELSE Shown(Sort(Search(SelectSeq(tasks.ret, Filtered))))
    IN  Read(get_all_tasks(d, None))

\* MainWindow.__init__: current_filter, setup_ui (an empty search box, the
\* first sort order), load_tasks().  An exception leaves no window.
MainWindow(names, d, now1, nows) ==
    LET w == [open |-> TRUE, names |-> names, current_filter |-> "All Tasks",
              search_box |-> "", sort_combo |-> "Sort by: Due Date",
              task_list |-> << >>, now |-> now1]
        Made(r) == IF r.exc = "none" THEN r
                   ELSE [window |-> [open |-> FALSE, names |-> names],
                         exc |-> r.exc, reads |-> r.reads]
    IN  Made(load_tasks(w, d, None, now1, nows))

\* TaskItemWidget.__init__(task, parent=None): self.task and self.parent.
\* load_tasks makes each item with TaskItemWidget(task), so with None.
TaskItemWidget(task, parent) == [task |-> task, parent |-> parent]

\* hasattr(parent, name) for parent None or the main window, by the
\* methods class MainWindow defines.
hasattr(parent, name) ==
    /\ parent # None
    /\ name \in { "__init__", "setup_shortcuts", "focus_search", "edit_task",
                  "setup_ui", "create_sidebar", "create_content_area",
                  "setup_menu_bar", "apply_styles", "load_tasks", "filter_tasks",
                  "show_new_task_dialog", "toggle_dark_mode" }

\* TaskItemWidget.on_delete_clicked with the answer to the question:
\* whether self.parent.delete_task(self.task.id) is called.
on_delete_clicked(widget, yes) == yes /\ hasattr(widget.parent, "delete_task")

(***************************************************************************)
(* The inputs the operations are called with.                              *)
(***************************************************************************)
Names == {"x", "y"}

RECURSIVE SeqsUpTo(_, _)
SeqsUpTo(S, n) ==
    IF n = 0 THEN { << >> }
    ELSE LET shorter == SeqsUpTo(S, n - 1)
         IN  shorter \cup { Append(q, x) : q \in shorter, x \in S }

TagLists == SeqsUpTo(Names, MaxTagLen)

\* title, description, priority, status and due date of the tasks built:
\* they differ in every field; the due date is absent in one.
Contents ==
    { [title |-> "a", description |-> "", priority |-> PriorityMember("LOW"),
       status |-> StatusMember("TODO"), due_date |-> None],
      [title |-> "b", description |-> "d", priority |-> PriorityMember("HIGH"),
       status |-> StatusMember("COMPLETED"), due_date |-> Some(DT(1))] }

Times == { DT(t) : t \in 0..MaxClock }
TimeArgs == { None } \cup { Some(d) : d \in Times }

TaskIds == 1..MaxTasks
IdArgs == 0..MaxTasks
StatusArgs == { None } \cup { Some(s) : s \in Status }

\* The clock readings one call may make: each at or one tick after the last.
Later(t) == t..(IF t < MaxClock THEN t + 1 ELSE MaxClock)

\* The next k readings of the clock after one at t, as datetimes.
RECURSIVE Readings(_, _)
Readings(t, k) ==
    IF k = 0 THEN { << >> }
    ELSE UNION { { << DT(n) >> \o q : q \in Readings(n, k - 1) } : n \in Later(t) }

Idle == [pc |-> "idle"]

EmptyDb == [tasks |-> {}, tags |-> {}, task_tags |-> {},
            seq |-> [tasks |-> 0, tags |-> 0]]

\* Database.__init__ on a new file: _init_db has created the three empty tables.
Init ==
    /\ db = EmptyDb
    /\ clock = 0
    /\ last = [op |-> "init"]
    /\ issued = {}
    /\ txn = Idle
    /\ conns = Connect(0)
    /\ settings = Settings(DEFAULTS, NoFile)
    /\ window = NoWindow

(***************************************************************************)
(* What last records of a call.  exc is "none" when the call returned.     *)
(*   add_task:      task, and id, the identity returned                    *)
(*   update_task:   task, and ok, the boolean returned                     *)
(*   delete_task:   task_id, and ok, the boolean returned                  *)
(*   get_task:      task_id, and found, None or the Task returned          *)
(*   get_all_tasks: status, and tasks, the list returned                   *)
(***************************************************************************)
AddCalled(task, r) ==
    last' = [op |-> "add_task", task |-> task, exc |-> r.exc, id |-> r.ret]
UpdateCalled(task, r) ==
    last' = [op |-> "update_task", task |-> task, exc |-> r.exc, ok |-> r.ret]
DeleteCalled(task_id, r) ==
    last' = [op |-> "delete_task", task_id |-> task_id, exc |-> r.exc, ok |-> r.ret]
GetCalled(task_id, r) ==
    last' = [op |-> "get_task", task_id |-> task_id, exc |-> r.exc, found |-> r.ret]
GetAllCalled(status, r) ==
    last' = [op |-> "get_all_tasks", status |-> status, exc |-> r.exc, tasks |-> r.ret]

\* Time passes between two calls.
Tick ==
    /\ clock < MaxClock
    /\ clock' = clock + 1
    /\ last' = [op |-> "tick"]
    /\ UNCHANGED <<db, issued, txn, conns, settings, window>>

\* task = Task(...) with tag list from lists and created_at, updated_at from
\* timeargs; then db.add_task(task).
AddTaskOf(lists, timeargs) ==
    /\ db.seq.tasks < MaxTasks
    /\ \E c \in Contents, tags \in lists, ca \in timeargs, ua \in timeargs :
       \E n2 \in Later(clock) :
          LET task == Task(c.title, c.description, c.priority, c.status, c.due_date,
                           tags, ca, ua, DT(clock), DT(n2))
              r == add_task(db, task)
          IN  /\ db' = r.db
              /\ clock' = n2
              /\ AddCalled(r.task, r)
              /\ issued' = issued \cup { r.ret }
    /\ conns' = Connect(conns)
    /\ UNCHANGED <<settings, window>>
    /\ UNCHANGED txn

\* task = Task(...); task.id = id; then db.update_task(task).  Task() reads
\* the clock for created_at and for updated_at, update_task reads it again
\* unless the id is None.
UpdateTaskOf(lists, timeargs) ==
    /\ \E id \in { None } \cup { Some(i) : i \in TaskIds } :
       \E c \in Contents, tags \in lists, ca \in timeargs, ua \in timeargs :
       \E n2 \in Later(clock) :
       \E n3 \in IF id = None THEN { n2 } ELSE Later(n2) :
          LET task == [Task(c.title, c.description, c.priority, c.status, c.due_date,
                            tags, ca, ua, DT(clock), DT(n2)) EXCEPT !.id = id]
              r == update_task(db, task, DT(n3))
          IN  /\ db' = r.db
              /\ clock' = n3
              /\ UpdateCalled(task, r)
              /\ conns' = IF id = None THEN conns ELSE Connect(conns)
              /\ UNCHANGED <<settings, window>>
    /\ UNCHANGED <<issued, txn>>

DeleteTask ==
    /\ \E id \in IdArgs :
          LET r == delete_task(db, id)
          IN  /\ db' = r.db
              /\ DeleteCalled(id, r)
    /\ conns' = Connect(conns)
    /\ UNCHANGED <<settings, window>>
    /\ UNCHANGED <<clock, issued, txn>>

GetTask ==
    /\ \E id \in IdArgs :
          LET r == get_task(db, id)
          IN  /\ db' = r.db
              /\ GetCalled(id, r)
    /\ conns' = Connect(conns)
    /\ UNCHANGED <<settings, window>>
    /\ UNCHANGED <<clock, issued, txn>>

GetAllTasks ==
    /\ \E status \in StatusArgs :
          LET r == get_all_tasks(db, status)
          IN  /\ db' = r.db
              /\ GetAllCalled(status, r)
    /\ conns' = Connect(conns)
    /\ UNCHANGED <<settings, window>>
    /\ UNCHANGED <<clock, issued, txn>>

(***************************************************************************)
(* Spec: tasks built without explicit timestamps, every tag list.          *)
(***************************************************************************)
AddTask == AddTaskOf(TagLists, { None })
UpdateTask == UpdateTaskOf(TagLists, { None })

Next == AddTask \/ UpdateTask \/ DeleteTask \/ GetTask \/ GetAllTasks \/ Tick

Spec == Init /\ [][Next]_vars

(***************************************************************************)
(* SpecTime: tasks built with created_at and updated_at given by the       *)
(* caller or left to default, and with at most one tag.                    *)
(***************************************************************************)
ShortLists == SeqsUpTo({"x"}, 1)

AddTaskTimed == AddTaskOf(ShortLists, TimeArgs)
UpdateTaskTimed == UpdateTaskOf(ShortLists, TimeArgs)

NextTime ==
    AddTaskTimed \/ UpdateTaskTimed \/ DeleteTask \/ GetTask \/ GetAllTasks \/ Tick

SpecTime == Init /\ [][NextTime]_vars

(***************************************************************************)
(* SpecTxn: add_task, update_task and delete_task one SQL statement at a   *)
(* time on the connection each opens.  txn.work is the content the         *)
(* connection sees, txn.begin the content of the file when the operation   *)
(* began.  Leaving the with block commits; an exception leaves it through  *)
(* rollback, and a crash leaves the journal to roll back on the next open. *)
(***************************************************************************)
\* What is durable after a statement made the connection see work: in a
\* transaction (isolation_level "DEFERRED") still d, without one work.
Durable(conn, d, work) == IF conn.isolation_level = "AUTOCOMMIT" THEN work ELSE d

\* The call is under way: txn.arg holds its task (add_task, update_task) or
\* its task_id (delete_task), txn.ret what it will return.
Started(op, arg, pc, work, ret) ==
    /\ txn' = [pc |-> pc, op |-> op, arg |-> arg, begin |-> db, work |-> work,
               rest |-> << >>, ret |-> ret]
    /\ db' = Durable(GetConnection, db, work)
    /\ last' = [op |-> "begin"]
    /\ conns' = Connect(conns)
    /\ UNCHANGED <<settings, window>>
    /\ UNCHANGED issued

\* add_task up to its INSERT INTO tasks.
BeginAdd ==
    /\ txn.pc = "idle"
    /\ db.seq.tasks < MaxTasks
    /\ \E c \in Contents, tags \in TagLists :
       \E n2 \in Later(clock) :
          LET task == Task(c.title, c.description, c.priority, c.status, c.due_date,
                           tags, None, None, DT(clock), DT(n2))
              work == InsertTask(db, task)
          IN  /\ Started("add_task", task,
                         IF task.tags # << >> THEN "delete_links" ELSE "commit",
                         work, work.seq.tasks)
              /\ clock' = n2

\* update_task up to its UPDATE; with a null id it returns at once.  Task()
\* has read the clock twice, the UPDATE's parameters read it again.
BeginUpdate ==
    /\ txn.pc = "idle"
    /\ \E id \in { None } \cup { Some(i) : i \in TaskIds } :
       \E c \in Contents, tags \in TagLists :
       \E n2 \in Later(clock) :
       \E n3 \in IF id = None THEN { n2 } ELSE Later(n2) :
          LET task == [Task(c.title, c.description, c.priority, c.status, c.due_date,
                            tags, None, None, DT(clock), DT(n2)) EXCEPT !.id = id]
              found == id # None /\ Cardinality(MatchingRows(db, id[1])) # 0
          IN  /\ IF id = None
                 THEN /\ UpdateCalled(task, [exc |-> "none", ret |-> FALSE])
                      /\ UNCHANGED <<db, issued, txn, conns, settings, window>>
                 ELSE Started("update_task", task,
                              IF found THEN "delete_links" ELSE "commit",
                              UpdateTaskRow(db, task, DT(n3)), found)
              /\ clock' = n3

\* delete_task up to its DELETE FROM tasks.
BeginDelete ==
    /\ txn.pc = "idle"
    /\ \E id \in IdArgs :
          Started("delete_task", id, "commit",
                  DeleteTaskRow(db, id, GetConnection.foreign_keys),
                  Cardinality(MatchingRows(db, id)) > 0)
    /\ UNCHANGED clock

\* The id _update_task_tags is called with.
TxnTaskId == IF txn.op = "add_task" THEN txn.ret ELSE txn.arg.id[1]

Stepped(pc, work, rest) ==
    /\ txn' = [txn EXCEPT !.pc = pc, !.work = work, !.rest = rest]
    /\ db' = Durable(GetConnection, db, work)
    /\ UNCHANGED <<clock, last, issued, conns, settings, window>>

\* _update_task_tags: DELETE FROM task_tags, then return if not tags.
StepDeleteLinks ==
    /\ txn.pc = "delete_links"
    /\ Stepped(IF txn.arg.tags = << >> THEN "commit" ELSE "tag",
               DeleteLinks(txn.work, TxnTaskId), txn.arg.tags)

\* The loop's SELECT, and INSERT INTO tags.
StepTag ==
    /\ txn.pc = "tag"
    /\ Stepped("link", EnsureTag(txn.work, Head(txn.rest)), txn.rest)

\* The loop's INSERT OR IGNORE INTO task_tags.
StepLink ==
    /\ txn.pc = "link"
    /\ Stepped(IF Tail(txn.rest) = << >> THEN "commit" ELSE "tag",
               InsertLink(txn.work, TxnTaskId, TagId(txn.work, Head(txn.rest))),
               Tail(txn.rest))

\* conn.commit(), or the commit on leaving the with block, and the return.
Commit ==
    /\ txn.pc = "commit"
    /\ db' = txn.work
    /\ txn' = Idle
    /\ LET r == [exc |-> "none", ret |-> txn.ret]
       IN  IF txn.op = "add_task" THEN AddCalled(txn.arg, r)
           ELSE IF txn.op = "update_task" THEN UpdateCalled(txn.arg, r)
           ELSE DeleteCalled(txn.arg, r)
    /\ issued' = IF txn.op = "add_task" THEN issued \cup { txn.ret } ELSE issued
    /\ UNCHANGED <<clock, conns, settings, window>>

\* An exception or a crash after a statement and before the commit.
Interrupt ==
    /\ txn.pc # "idle"
    /\ txn' = Idle
    /\ last' = [op |-> txn.op, exc |-> "interrupted"]
    /\ UNCHANGED <<db, clock, issued, conns, settings, window>>

TickTxn == txn.pc = "idle" /\ Tick

NextTxn ==
    \/ BeginAdd \/ BeginUpdate \/ BeginDelete
    \/ StepDeleteLinks \/ StepTag \/ StepLink
    \/ Commit \/ Interrupt \/ TickTxn

SpecTxn == Init /\ [][NextTxn]_vars

(***************************************************************************)
(* SpecFile: Database(db_path) on a file that exists.  CREATE TABLE IF NOT *)
(* EXISTS leaves its rows as they are, and the priority and status columns *)
(* are TEXT: a row may hold a string that names no member, written by      *)
(* another program or another version.  The garbage collector finalizes    *)
(* the connections the operations left open at a time of its own.          *)
(***************************************************************************)
\* What the priority and status columns of a row of the file hold: members
\* as the code writes them, a status member's name in place of its value,
\* and strings of no member.
StoredEnums ==
    { [priority |-> "LOW", status |-> "To Do"],
      [priority |-> "URGENT", status |-> "To Do"],
      [priority |-> "HIGH", status |-> "TODO"],
      [priority |-> "low", status |-> "Done"] }

\* A row of the file: a row add_task wrote, its two columns overwritten.
FileRow(rowid, c, e) ==
    [TaskRow(rowid, Task(c.title, c.description, c.priority, c.status, c.due_date,
                         << >>, None, None, DT(0), DT(0)))
        EXCEPT !.priority = e.priority, !.status = e.status]

\* Files with two tasks rows, the first tagged "x".
ExistingFiles ==
    { [tasks |-> { FileRow(1, c1, e1), FileRow(2, c2, e2) },
       tags |-> { [id |-> 1, name |-> "x"] },
       task_tags |-> { [task_id |-> 1, tag_id |-> 1] },
       seq |-> [tasks |-> 2, tags |-> 1]]
      : c1 \in Contents, c2 \in Contents, e1 \in StoredEnums, e2 \in StoredEnums }

InitFile ==
    /\ db \in ExistingFiles
    /\ clock = 0
    /\ last = [op |-> "init"]
    /\ issued = {}
    /\ txn = Idle
    /\ conns = Connect(0)
    /\ settings = Settings(DEFAULTS, NoFile)
    /\ window = NoWindow

\* The garbage collector finalizes connections no frame refers to any
\* more, which closes them: those of the generations it collects, so one or
\* more of the open ones and not always all.  At MaxConns the count stands
\* for that many or more, and closing some may leave that many.
Collect ==
    /\ conns > 0
    /\ \E open \in 0..conns : /\ open < conns \/ conns = MaxConns
                              /\ conns' = open
    /\ UNCHANGED <<settings, window>>
    /\ last' = [op |-> "gc"]
    /\ UNCHANGED <<db, clock, issued, txn>>

UpdateTaskShort == UpdateTaskOf(ShortLists, { None })

NextFile == GetTask \/ GetAllTasks \/ UpdateTaskShort \/ DeleteTask \/ Collect

SpecFile == InitFile /\ [][NextFile]_vars

(***************************************************************************)
(* SpecDict: Task.to_dict and Task.from_dict.  A dict is a function from   *)
(* its keys; an entity is made, rendered by to_dict, and from_dict reads   *)
(* the dict back, whole or with one or two keys missing.                   *)
(***************************************************************************)
\* Mutant: the status is rendered by its member name.
to_dict_status_name(task) ==
    [ id          |-> task.id,
      title       |-> task.title,
      description |-> task.description,
      priority    |-> task.priority.name,
      status      |-> task.status.name,
      due_date    |-> IF task.due_date # None THEN isoformat(task.due_date[1]) ELSE NULL,
      tags        |-> task.tags,
      created_at  |-> isoformat(task.created_at),
      updated_at  |-> isoformat(task.updated_at) ]

\* Task.to_dict
to_dict(task) ==
    [ id          |-> task.id,
      title       |-> task.title,
      description |-> task.description,
      priority    |-> task.priority.name,
      status      |-> task.status.value,
      due_date    |-> IF task.due_date # None THEN isoformat(task.due_date[1]) ELSE NULL,
      tags        |-> task.tags,
      created_at  |-> isoformat(task.created_at),
      updated_at  |-> isoformat(task.updated_at) ]

\* data.get(key, default)
Get(data, key, default) == IF key \in DOMAIN data THEN data[key] ELSE default

\* Task.from_dict.  nows are the readings of datetime.now() in the order
\* they are made: two in Task(), then one for created_at when the dict has
\* no such key, then one for updated_at when the dict has no such key.  exc
\* names the exception raised, "none" when the Task is made; an exception
\* is raised while the arguments of cls(...) are evaluated, before any
\* reading.  reads is the number of readings made.
from_dict(data, nows) ==
    IF "title" \notin DOMAIN data
    THEN [exc |-> "KeyError", task |-> None, reads |-> 0]
    ELSE IF PriorityByName(Get(data, "priority", "MEDIUM")) = {}
    THEN [exc |-> "KeyError", task |-> None, reads |-> 0]
    ELSE IF StatusByValue(Get(data, "status", "To Do")) = {}
    THEN [exc |-> "ValueError", task |-> None, reads |-> 0]
    ELSE LET t == Task(data["title"],
                       Get(data, "description", ""),
                       CHOOSE p \in PriorityByName(Get(data, "priority", "MEDIUM")) : TRUE,
                       CHOOSE st \in StatusByValue(Get(data, "status", "To Do")) : TRUE,
                       IF Get(data, "due_date", NULL) # NULL
                       THEN Some(fromisoformat(data["due_date"])) ELSE None,
                       Get(data, "tags", << >>),
                       None, None, nows[1], nows[2])
             created == IF "created_at" \in DOMAIN data THEN 2 ELSE 3
             updated == IF "updated_at" \in DOMAIN data THEN created ELSE created + 1
         IN  [exc |-> "none",
              task |-> Some([t EXCEPT
                         !.id = Get(data, "id", None),
                         !.created_at = IF "created_at" \in DOMAIN data
                                        THEN fromisoformat(data["created_at"])
                                        ELSE nows[created],
                         !.updated_at = IF "updated_at" \in DOMAIN data
                                        THEN fromisoformat(data["updated_at"])
                                        ELSE nows[updated]]),
              reads |-> updated]

\* The entities made: every priority and status, the id set or not, the due
\* date absent or given, every tag list, timestamps with and without
\* microseconds.
Entities ==
    { [Task("a", de, p, st, due, tags, Some(ca), Some(ua), ca, ua) EXCEPT !.id = id]
      : de \in {"", "d"}, p \in Priority, st \in Status, due \in TimeArgs,
        tags \in TagLists, ca \in Times, ua \in Times,
        id \in { None } \cup { Some(i) : i \in TaskIds } }

DictKeys ==
    { "id", "title", "description", "priority", "status", "due_date", "tags",
      "created_at", "updated_at" }

\* The keys of the dicts from_dict is given: all, all but one, or all but
\* two.
KeySets == { DictKeys \ { j, k } : j, k \in DictKeys \cup { "" } }

InitDict ==
    /\ db = EmptyDb
    /\ clock = 0
    /\ last \in { [op |-> "Task", task |-> t] : t \in Entities }
    /\ issued = {}
    /\ txn = Idle
    /\ conns = Connect(0)
    /\ settings = Settings(DEFAULTS, NoFile)
    /\ window = NoWindow

ToDict ==
    /\ last.op = "Task"
    /\ last' = [op |-> "to_dict", task |-> last.task, data |-> to_dict(last.task)]
    /\ UNCHANGED <<db, clock, issued, txn, conns, settings, window>>

FromDict ==
    /\ last.op = "to_dict"
    /\ \E keys \in KeySets : \E later \in Readings(clock, 3) :
          LET data == [k \in keys |-> last.data[k]]
              nows == << DT(clock) >> \o later
              r == from_dict(data, nows)
          IN  /\ last' = [op |-> "from_dict", task |-> last.task, keys |-> keys,
                          exc |-> r.exc, made |-> r.task]
              /\ clock' = IF r.reads = 0 THEN clock
                          ELSE CHOOSE n \in 0..MaxClock : DT(n) = nows[r.reads]
    /\ UNCHANGED <<db, issued, txn, conns, settings, window>>

NextDict == ToDict \/ FromDict

SpecDict == InitDict /\ [][NextDict]_vars

(***************************************************************************)
(* SpecConc: two writers, each on a connection of its own to one file that *)
(* holds one untagged task, each running add_task or update_task once, one *)
(* SQL statement at a time.  txn[w] is the call of writer w.  SQLite lets  *)
(* one connection at a time hold the write lock: with a transaction open   *)
(* (isolation_level "DEFERRED") from the first INSERT or UPDATE until the  *)
(* commit, without one for the length of a statement.  A connection that   *)
(* finds the lock taken retries (the busy handler) until the connection's  *)
(* timeout of 5 s has passed, and then raises OperationalError.            *)
(***************************************************************************)
Writers == 1..2

\* The tag lists of the two tasks: each has the name "x".
SharedLists == { tags \in TagLists : \E i \in 1..Len(tags) : tags[i] = "x" }

\* The file: one task, added without tags.
OneTaskDb ==
    add_task(EmptyDb, Task("a", "", PriorityMember("LOW"), StatusMember("TODO"), None,
                           << >>, None, None, DT(0), DT(0))).db

InitConc ==
    /\ db = OneTaskDb
    /\ clock = 0
    /\ last = [op |-> "init"]
    /\ issued = {}
    /\ txn = [w \in Writers |-> Idle]
    /\ conns = Connect(0)
    /\ settings = Settings(DEFAULTS, NoFile)
    /\ window = NoWindow

Autocommit == GetConnection.isolation_level = "AUTOCOMMIT"

\* What the connection of writer w reads.
View(w) == IF Autocommit THEN db ELSE txn[w].work

\* No other connection holds the write lock.
LockFree(w) ==
    \/ Autocommit
    \/ \A v \in Writers \ { w } : txn[v].pc \in { "idle", "init", "made", "begin", "done" }

\* Writer w has executed a statement that made its connection see work.
Executed(w, pc, work, changes) ==
    /\ txn' = [txn EXCEPT ![w] = [changes EXCEPT !.pc = pc, !.work = work]]
    /\ db' = Durable(GetConnection, db, work)
    /\ last' = [op |-> "statement"]
    /\ UNCHANGED <<issued, conns, settings, window>>

\* Writer w has left its call: returned ret, or raised exc after a rollback.
Left(w, exc, ret) ==
    /\ txn' = [txn EXCEPT ![w].pc = "done", ![w].exc = exc, ![w].ret = ret]
    /\ last' = [op |-> "statement"]
    /\ UNCHANGED <<clock, conns, settings, window>>

\* task = Task(...) is entered with its arguments: Task.__init__ reads the
\* clock for created_at.  Each reading is the latest one made in the
\* process or a tick later; the other writer may run before the next.
ConcTaskCreated(w) ==
    /\ txn[w].pc = "idle"
    /\ \E op \in { "add_task", "update_task" }, c \in Contents, tags \in SharedLists :
       \E n1 \in Later(clock) :
          /\ txn' = [txn EXCEPT ![w] = [pc |-> "init", op |-> op, content |-> c,
                                        tags |-> tags, created_at |-> DT(n1)]]
          /\ clock' = n1
    /\ last' = [op |-> "statement"]
    /\ UNCHANGED <<db, issued, conns, settings, window>>

\* Task.__init__ reads the clock again for updated_at, and the Task is made;
\* the task to update is given the stored task's id.
ConcTaskUpdated(w) ==
    /\ txn[w].pc = "init"
    /\ \E n2 \in Later(clock) :
          LET c == txn[w].content
              task == [Task(c.title, c.description, c.priority, c.status, c.due_date,
                            txn[w].tags, None, None, txn[w].created_at, DT(n2))
                         EXCEPT !.id = IF txn[w].op = "add_task" THEN None ELSE Some(1)]
          IN  /\ txn' = [txn EXCEPT ![w] =
                           [pc |-> "made", op |-> txn[w].op, task |-> task, id |-> 0,
                            work |-> db, rest |-> << >>, tag |-> None, exc |-> "none",
                            ret |-> 0, waited |-> FALSE, now |-> None]]
              /\ clock' = n2
    /\ last' = [op |-> "statement"]
    /\ UNCHANGED <<db, issued, conns, settings, window>>

\* add_task(task) or update_task(task) is called: _get_connection().
Call(w) ==
    /\ txn[w].pc = "made"
    /\ txn' = [txn EXCEPT ![w].pc = "begin", ![w].work = db]
    /\ conns' = Connect(conns)
    /\ last' = [op |-> "statement"]
    /\ UNCHANGED <<db, clock, issued, settings, window>>

\* update_task: the parameters of the UPDATE are evaluated before
\* cursor.execute() is entered, and datetime.now() is one of them.  The
\* reading is a step of its own: the lock is not asked for yet, and the
\* other writer and the clock may move before the statement runs.
ConcReadClock(w) ==
    /\ txn[w].pc = "begin"
    /\ txn[w].op = "update_task"
    /\ txn[w].now = None
    /\ \E n3 \in Later(clock) :
          /\ txn' = [txn EXCEPT ![w].now = Some(DT(n3))]
          /\ clock' = n3
    /\ last' = [op |-> "statement"]
    /\ UNCHANGED <<db, issued, conns, settings, window>>

\* execute() of the first statement finds the write lock taken: the busy
\* handler waits.
Busy(w) ==
    /\ txn[w].pc = "begin"
    /\ txn[w].op = "update_task" => txn[w].now # None
    /\ ~LockFree(w)
    /\ ~txn[w].waited
    /\ txn' = [txn EXCEPT ![w].waited = TRUE]
    /\ last' = [op |-> "statement"]
    /\ UNCHANGED <<db, clock, issued, conns, settings, window>>

\* The lock is still taken when the timeout has passed: OperationalError
\* ("database is locked").
LockTimeout(w) ==
    /\ txn[w].pc = "begin"
    /\ ~LockFree(w)
    /\ txn[w].waited
    /\ Left(w, "OperationalError", 0)
    /\ UNCHANGED <<db, issued>>

\* add_task: INSERT INTO tasks, lastrowid, "if task.tags".
ConcInsertTask(w) ==
    /\ txn[w].pc = "begin"
    /\ txn[w].op = "add_task"
    /\ LockFree(w)
    /\ LET work == InsertTask(db, txn[w].task)
       IN  Executed(w, IF txn[w].task.tags # << >> THEN "delete_links" ELSE "commit",
                    work, [txn[w] EXCEPT !.id = work.seq.tasks, !.ret = work.seq.tasks])
    /\ UNCHANGED clock

\* update_task: UPDATE tasks with the reading made for its parameters;
\* "if cursor.rowcount == 0: return False".
ConcUpdateTask(w) ==
    /\ txn[w].pc = "begin"
    /\ txn[w].op = "update_task"
    /\ txn[w].now # None
    /\ LockFree(w)
    /\ LET found == Cardinality(MatchingRows(db, txn[w].task.id[1])) # 0
       IN  Executed(w, IF found THEN "delete_links" ELSE "commit",
                    UpdateTaskRow(db, txn[w].task, txn[w].now[1]),
                    [txn[w] EXCEPT !.id = txn[w].task.id[1],
                                   !.ret = IF found THEN 1 ELSE 0])
    /\ UNCHANGED clock

\* _update_task_tags: DELETE FROM task_tags, "if not tags: return".
ConcDeleteLinks(w) ==
    /\ txn[w].pc = "delete_links"
    /\ LockFree(w)
    /\ Executed(w, IF txn[w].task.tags = << >> THEN "commit" ELSE "select_tag",
                DeleteLinks(View(w), txn[w].id),
                [txn[w] EXCEPT !.rest = txn[w].task.tags])
    /\ UNCHANGED clock

\* The loop's SELECT id FROM tags WHERE name = ? and fetchone().
ConcSelectTag(w) ==
    /\ txn[w].pc = "select_tag"
    /\ LET rows == { t \in View(w).tags : t.name = Head(txn[w].rest) }
       IN  Executed(w, IF rows # {} THEN "link" ELSE "insert_tag", View(w),
                    [txn[w] EXCEPT !.tag = IF rows # {}
                                           THEN Some((CHOOSE t \in rows : TRUE).id)
                                           ELSE None])
    /\ UNCHANGED clock

\* The loop's INSERT INTO tags (name): the UNIQUE constraint on name makes
\* it raise IntegrityError when a row has the name by now.
ConcInsertTag(w) ==
    /\ txn[w].pc = "insert_tag"
    /\ LockFree(w)
    /\ IF \E t \in View(w).tags : t.name = Head(txn[w].rest)
       THEN /\ Left(w, "IntegrityError", 0)
            /\ UNCHANGED <<db, issued>>
       ELSE LET work == InsertTag(View(w), Head(txn[w].rest))
            IN  /\ Executed(w, "link", work, [txn[w] EXCEPT !.tag = Some(work.seq.tags)])
                /\ UNCHANGED clock

\* The loop's INSERT OR IGNORE INTO task_tags.
ConcInsertLink(w) ==
    /\ txn[w].pc = "link"
    /\ LockFree(w)
    /\ Executed(w, IF Tail(txn[w].rest) = << >> THEN "commit" ELSE "select_tag",
                InsertLink(View(w), txn[w].id, txn[w].tag[1]),
                [txn[w] EXCEPT !.rest = Tail(txn[w].rest)])
    /\ UNCHANGED clock

\* conn.commit() or the commit on leaving the with block, and the return.
ConcCommit(w) ==
    /\ txn[w].pc = "commit"
    /\ db' = View(w)
    /\ Left(w, "none", txn[w].ret)
    /\ issued' = IF txn[w].op = "add_task" THEN issued \cup { txn[w].ret } ELSE issued

NextConc ==
    \E w \in Writers :
        \/ ConcTaskCreated(w) \/ ConcTaskUpdated(w) \/ Call(w)
        \/ ConcReadClock(w) \/ Busy(w) \/ LockTimeout(w)
        \/ ConcInsertTask(w) \/ ConcUpdateTask(w) \/ ConcDeleteLinks(w)
        \/ ConcSelectTag(w) \/ ConcInsertTag(w) \/ ConcInsertLink(w) \/ ConcCommit(w)

SpecConc == InitConc /\ [][NextConc]_vars

(***************************************************************************)
(* SpecSettings: the two Settings objects of the process, made one after  *)
(* the other on the same file when the program starts, and the calls made  *)
(* on either of them.                                                      *)
(***************************************************************************)
Key(names) ==
    IF Len(names) = 1 THEN names
    ELSE [i \in 1..(2 * Len(names) - 1) |->
            IF i % 2 = 1 THEN names[(i + 1) \div 2] ELSE "."]

SetKeys ==
    { Key(<<"app", "theme">>), Key(<<"app">>), Key(<<"extra", "k">>),
      Key(<<"app", "theme", "x">>) }

SettingsKeys ==
    SetKeys \cup { Key(<<"tasks", "default_due_days">>), Key(<<"app", "colour">>),
                   Key(<<"nope">>), <<"app", ".">>, << >> }

\* What the file may hold when it is read: nothing, text that is not JSON,
\* a saved tree, JSON that is no object.
SettingsFiles ==
    { NoFile, [text |-> "{"],
      [json |-> [dict |-> [tasks |-> [dict |-> [default_due_days |-> [int |-> 3]]]]]],
      [json |-> [int |-> 1]] }

\* "global" is the instance utils/settings.py makes when it is imported,
\* "main" the one main() makes.
Objects == { "global", "main" }

\* The process with the top levels of its two objects exchanged.
Swap(s) == [s EXCEPT !.tree = s.other, !.other = s.tree]

\* The process as object o has it: s.tree is self._settings of o.
Object(o) == IF o = "main" THEN settings ELSE Swap(settings)

\* The program has started: importing utils.settings made the global
\* instance, whose load() wrote the file's values into the nested dicts of
\* DEFAULTS, and main() then made its own Settings from those.  A file
\* that makes load() raise ends the program there.
InitSettings ==
    /\ db = EmptyDb
    /\ clock = 0
    /\ last = [op |-> "init"]
    /\ issued = {}
    /\ txn = Idle
    /\ conns = Connect(0)
    /\ \E file \in { f \in SettingsFiles : load([DEFAULTS |-> DEFAULTS,
                                                   tree |-> copy(DEFAULTS),
                                                   file |-> f]).exc = "none" } :
          LET global == Settings(DEFAULTS, file)
              main == Settings(global.DEFAULTS, global.file)
          IN  settings = [DEFAULTS |-> main.DEFAULTS, tree |-> main.tree,
                          file |-> main.file, other |-> global.tree]
    /\ window = NoWindow

\* Object o has returned r from the call op.
SettingsCalled(op, o, key, r) ==
    /\ last' = [op |-> op, obj |-> o, key |-> key, ok |-> r.ret]
    /\ settings' = IF o = "main" THEN r.settings ELSE Swap(r.settings)
    /\ UNCHANGED <<db, clock, issued, txn, conns, window>>

GetSetting ==
    \E o \in Objects, key \in SettingsKeys, default \in { PyNone, [int |-> 5] } :
        /\ last' = [op |-> "get", obj |-> o, key |-> key, default |-> default,
                    value |-> get(Object(o), key, default)]
        /\ UNCHANGED <<db, clock, issued, txn, conns, settings, window>>

SetSetting ==
    \E o \in Objects, key \in SetKeys, value \in { [str |-> "dark"] },
       save_immediately \in BOOLEAN :
        \E io \in IF save_immediately THEN SaveOutcomes ELSE { [opened |-> FALSE] } :
            SettingsCalled("set", o, key,
                           set(Object(o), key, value, save_immediately, io))

Load ==
    \E o \in Objects :
        LET r == load(Object(o))
        IN  IF r.exc = "none" THEN SettingsCalled("load", o, << >>, r)
            ELSE /\ last' = [op |-> "load", obj |-> o, key |-> << >>, exc |-> r.exc]
                 /\ UNCHANGED <<db, clock, issued, txn, conns, settings, window>>

Save ==
    \E o \in Objects, io \in SaveOutcomes :
        SettingsCalled("save", o, << >>, save(Object(o), io))

ResetToDefaults ==
    \E o \in Objects, io \in SaveOutcomes :
        SettingsCalled("reset_to_defaults", o, << >>,
                       reset_to_defaults(Object(o), io))

Contains ==
    \E o \in Objects, key \in SettingsKeys :
        /\ last' = [op |-> "contains", obj |-> o, key |-> key,
                    ok |-> contains(Object(o), key)]
        /\ UNCHANGED <<db, clock, issued, txn, conns, settings, window>>

NextSettings ==
    \/ GetSetting \/ SetSetting \/ Load \/ Save \/ ResetToDefaults \/ Contains

SpecSettings == InitSettings /\ [][NextSettings]_vars

(***************************************************************************)
(* SpecWindow: the program is started.  Importing main_window.py has made   *)
(* the module's db on its file, which is new or was written by earlier     *)
(* users of the database; the module's namespace is as its import          *)
(* statements leave it, and nothing in the program binds another name in   *)
(* it.  main() calls MainWindow(settings); an exception that leaves it     *)
(* leaves main() and ends the process, and the connections with it.        *)
(***************************************************************************)
InitWindow ==
    /\ db \in { EmptyDb, OneTaskDb } \cup ExistingFiles
    /\ clock = 0
    /\ last = [op |-> "init"]
    /\ issued = {}
    /\ txn = Idle
    /\ conns = Connect(0)
    /\ settings = Settings(DEFAULTS, NoFile)
    /\ window = NoWindow

\* The clock after a call whose first reading was now1 and which made the
\* first reads of the readings nows.
ClockAfter(now1, nows, reads) ==
    LET now == IF reads = 0 THEN now1 ELSE nows[reads]
    IN  CHOOSE t \in 0..MaxClock : DT(t) = now

\* main(): MainWindow(settings), in a process that has not called it yet.
OpenWindow ==
    /\ ~window.open
    /\ conns > 0
    /\ \E nows \in Readings(clock, MaxTasks) :
          LET r == MainWindow(window.names, db, DT(clock), nows)
          IN  /\ window' = r.window
              /\ last' = [op |-> "MainWindow", exc |-> r.exc]
              /\ clock' = IF r.exc = "none" THEN ClockAfter(DT(clock), nows, r.reads)
                          ELSE clock
              /\ conns' = IF r.exc = "none" THEN Connect(conns) ELSE 0
    /\ UNCHANGED <<db, issued, txn, settings>>

NextWindow == OpenWindow \/ Tick

SpecWindow == InitWindow /\ [][NextWindow]_vars

(***************************************************************************)
(* Claims.  last names what happened last, so a step into a state whose    *)
(* last.op is the name of an operation is a call of that operation.        *)
(***************************************************************************)
ToSet(q) == { q[i] : i \in 1..Len(q) }

Ids(d) == { r.id : r \in d.tasks }

\* The associations of one task, and of every task but one.
LinksOf(d, task_id) == { l \in d.task_tags : l.task_id = task_id }
OtherLinks(d, task_id) == { l \in d.task_tags : l.task_id # task_id }
OtherRows(d, task_id) == { r \in d.tasks : r.id # task_id }

\* The names of the tags a task is associated with, read from the tables.
LinkedNames(d, task_id) ==
    { t.name : t \in { u \in d.tags : \E l \in LinksOf(d, task_id) : l.tag_id = u.id } }

\* C1: after add_task(task), get_task on the returned id yields a task with
\* the title, description, priority, status, due_date, created_at and
\* updated_at of the task passed in, and with its set of tag names.
C1_AddGetRoundTrip ==
    last.op = "add_task" =>
        LET g == get_task(db, last.id)
        IN  /\ g.exc = "none"
            /\ g.ret # None
            /\ g.ret[1].title = last.task.title
            /\ g.ret[1].description = last.task.description
            /\ g.ret[1].priority = last.task.priority
            /\ g.ret[1].status = last.task.status
            /\ g.ret[1].due_date = last.task.due_date
            /\ g.ret[1].created_at = last.task.created_at
            /\ g.ret[1].updated_at = last.task.updated_at
            /\ ToSet(g.ret[1].tags) = ToSet(last.task.tags)

\* A task with a due date, two tags and a timestamp with microseconds was
\* added after the first task, which had tags, had been deleted.
C1_Witness ==
    /\ last.op = "add_task"
    /\ last.id = 2
    /\ 1 \notin Ids(db)
    /\ LinksOf(db, 1) # {}
    /\ Cardinality(ToSet(last.task.tags)) = 2
    /\ last.task.due_date # None
    /\ last.task.updated_at.us = 1

UpdateOk == last.op = "update_task" /\ last.ok

\* C2: after a successful update_task(task) the tag names associated with
\* the task are exactly those of task.tags (none when the list is empty),
\* and the update removed no row of the tags table.
C2_UpdateReplacesTags ==
    [][UpdateOk' =>
          /\ LinkedNames(db', last'.task.id[1]) = ToSet(last'.task.tags)
          /\ Cardinality(LinksOf(db', last'.task.id[1]))
                = Cardinality(ToSet(last'.task.tags))
          /\ db.tags \subseteq db'.tags]_vars

\* The only task ever added was updated with an empty tag list: the two
\* tags it had are still in the tags table and it is associated with none.
C2_Witness ==
    /\ UpdateOk
    /\ last.task.tags = << >>
    /\ db.seq.tasks = 1
    /\ Cardinality(db.tags) = 2
    /\ LinksOf(db, last.task.id[1]) = {}

\* C3: update_task(task) with a null id, or an id no row of tasks has,
\* returns False and leaves tasks, tags and task_tags as they were.
C3_UpdateMissingNoChange ==
    [][(/\ last'.op = "update_task"
        /\ (last'.task.id = None \/ last'.task.id[1] \notin Ids(db)))
       => (~last'.ok /\ db' = db)]_vars

\* update_task was refused for the id of a deleted task that had tags,
\* while another task is stored.
C3_Witness ==
    /\ last.op = "update_task"
    /\ ~last.ok
    /\ last.task.id # None
    /\ last.task.tags # << >>
    /\ LinksOf(db, last.task.id[1]) # {}
    /\ db.tasks # {}

\* C4: delete_task(id) on an existing id returns True; afterwards tasks has
\* no row with that id and task_tags none with task_id = id, and the rows
\* and associations of every other task are unchanged.
C4_DeleteRemovesTaskAndLinks ==
    [][(last'.op = "delete_task" /\ last'.task_id \in Ids(db))
       => /\ last'.ok
          /\ last'.task_id \notin Ids(db')
          /\ LinksOf(db', last'.task_id) = {}
          /\ OtherRows(db', last'.task_id) = OtherRows(db, last'.task_id)
          /\ OtherLinks(db', last'.task_id) = OtherLinks(db, last'.task_id)]_vars

\* C5: delete_task(id) on an id no row has returns False and changes
\* nothing; a second delete_task(id) right after a first returns False and
\* leaves the store as the first left it.
C5_DeleteMissingNoOp ==
    [][/\ (last'.op = "delete_task" /\ last'.task_id \notin Ids(db))
            => (~last'.ok /\ db' = db)
       /\ (/\ last.op = "delete_task"
           /\ last'.op = "delete_task"
           /\ last'.task_id = last.task_id)
            => (~last'.ok /\ db' = db)]_vars

\* delete_task found nothing to delete for an id that had been issued,
\* while another task is stored.
C5_Witness ==
    /\ last.op = "delete_task"
    /\ ~last.ok
    /\ last.task_id \in issued
    /\ db.tasks # {}

\* C6: get_all_tasks(s) returns one entity for each stored task whose
\* status is s and none for any other; get_all_tasks() returns one entity
\* per stored task; each entity is the one get_task returns for its id.
C6_ListMatchesFilter ==
    last.op = "get_all_tasks" =>
        LET want == IF last.status = None THEN db.tasks
                    ELSE { r \in db.tasks : r.status = last.status[1].value }
            got == last.tasks
        IN  /\ last.exc = "none"
            /\ Len(got) = Cardinality(want)
            /\ { got[i].id : i \in 1..Len(got) } = { Some(r.id) : r \in want }
            /\ \A i \in 1..Len(got) :
                  /\ last.status # None => got[i].status = last.status[1]
                  /\ get_task(db, got[i].id[1]).ret = Some(got[i])
                  /\ ToSet(got[i].tags) = LinkedNames(db, got[i].id[1])

\* A filtered listing returned one of two stored tasks, with its tags.
C6_Witness ==
    /\ last.op = "get_all_tasks"
    /\ last.status # None
    /\ Len(last.tasks) = 1
    /\ Cardinality(db.tasks) = 2
    /\ last.tasks[1].tags # << >>

\* C7: get_task(id) returns None, raises nothing and leaves the store as it
\* is, exactly when no row of tasks has that id; otherwise it returns the
\* task of that row with the names of its tags.
C7_GetTaskNoneIffMissing ==
    [][last'.op = "get_task" =>
          /\ db' = db
          /\ last'.exc = "none"
          /\ (last'.found = None) <=> (last'.task_id \notin Ids(db))
          /\ last'.found # None =>
                /\ last'.found[1].id = Some(last'.task_id)
                /\ \E r \in db.tasks : /\ r.id = last'.task_id
                                       /\ r.title = last'.found[1].title
                /\ ToSet(last'.found[1].tags) = LinkedNames(db, last'.task_id)]_vars

\* get_task returned one of two stored tasks, with its two tags.
C7_Witness ==
    /\ last.op = "get_task"
    /\ last.found # None
    /\ Len(last.found[1].tags) = 2
    /\ Cardinality(db.tasks) = 2

\* What the whole operation makes of the store it began with.
WholeResult(op, arg, begin, now) ==
    IF op = "add_task" THEN add_task(begin, arg).db
    ELSE IF op = "update_task" THEN update_task(begin, arg, now).db
    ELSE delete_task(begin, arg).db

\* C8: add_task, update_task and delete_task are atomic: while one is
\* between its statements the durable store is the one it began with, an
\* interruption leaves that store, and a commit leaves the result of the
\* whole operation, never a part of it.
C8_Atomic ==
    [][/\ txn'.pc # "idle" => db' = txn'.begin
       /\ (txn.pc # "idle" /\ txn'.pc = "idle") =>
             IF last'.exc = "interrupted"
             THEN db' = txn.begin
             ELSE db' = WholeResult(txn.op, txn.arg, txn.begin, DT(clock))]_vars

\* An update is between the INSERT of a new tag row and the INSERT of the
\* last association: its connection sees the row rewritten, the old
\* associations gone and the new tag, the file none of it.
C8_Witness ==
    /\ txn.pc = "link"
    /\ txn.op = "update_task"
    /\ Len(txn.rest) = 1
    /\ Len(txn.arg.tags) = 2
    /\ txn.work.tags # db.tags
    /\ txn.work.tasks # db.tasks
    /\ LinksOf(db, txn.arg.id[1]) # {}
    /\ LinksOf(txn.work, txn.arg.id[1]) # LinksOf(db, txn.arg.id[1])
    /\ db = txn.begin

\* C9: add_task returns an id that no stored task has and that no earlier
\* add_task returned; update_task and delete_task change the id of no row
\* that stays.
C9_IdentityUniqueAndStable ==
    [][/\ last'.op = "add_task" =>
             (last'.id \notin Ids(db) /\ last'.id \notin issued)
       /\ last'.op = "update_task" =>
             /\ Ids(db') = Ids(db)
             /\ Cardinality(db'.tasks) = Cardinality(db.tasks)
             /\ \A r \in db'.tasks : r \in db.tasks \/ Some(r.id) = last'.task.id
       /\ last'.op = "delete_task" => db'.tasks \subseteq db.tasks]_vars

\* A second task was added after the first had been deleted.
C9_Witness ==
    /\ last.op = "add_task"
    /\ last.id = 2
    /\ Ids(db) = {2}
    /\ issued = {1, 2}

\* C10: every stored task has updated_at >= created_at, whatever arguments
\* the task was built with and whatever add_task and update_task calls
\* were made.
C10_UpdatedNotBeforeCreated ==
    \A r \in db.tasks :
        DtLeq(fromisoformat(r.created_at), fromisoformat(r.updated_at))

\* The task get_task returns for an id that is stored.
Stored(d, task_id) == get_task(d, task_id).ret[1]

\* C11: a successful update_task(task) sets the stored updated_at to the
\* clock reading of the call whatever task.updated_at is, overwrites title,
\* description, priority, status and due_date from the task, and leaves the
\* row's created_at and id as they were whatever task.created_at is.
C11_UpdateRefreshesUpdatedAt ==
    [][UpdateOk' =>
          LET id == last'.task.id[1]
              old == Stored(db, id)
              new == Stored(db', id)
          IN  /\ Cardinality(MatchingRows(db', id)) = 1
              /\ new.id = old.id
              /\ new.updated_at = DT(clock')
              /\ new.created_at = old.created_at
              /\ new.title = last'.task.title
              /\ new.description = last'.task.description
              /\ new.priority = last'.task.priority
              /\ new.status = last'.task.status
              /\ new.due_date = last'.task.due_date]_vars

\* A task stored at tick 0 was updated at tick 1 from an entity built with
\* created_at at tick 1 and updated_at at tick 0.
C11_Witness ==
    /\ UpdateOk
    /\ clock = 1
    /\ last.task.updated_at = DT(0)
    /\ last.task.created_at = DT(1)
    /\ Stored(db, last.task.id[1]).created_at = DT(0)
    /\ Stored(db, last.task.id[1]).updated_at = DT(1)
    /\ Stored(db, last.task.id[1]).due_date # None

\* No two rows of tags share a name.
TagNamesUnique(d) == \A t, u \in d.tags : t.name = u.name => t.id = u.id

\* The id a successful add_task or update_task synchronised the tags of.
SyncedId(l) == IF l.op = "add_task" THEN l.id ELSE l.task.id[1]

\* C12: no two rows of tags ever share a name; add_task and update_task
\* insert a tags row only for a name of the task's list that no row had,
\* and associate the task with the row a name already had.
C12_TagNameOneRow ==
    /\ []TagNamesUnique(db)
    /\ [][(last'.op = "add_task" \/ UpdateOk') =>
             /\ \A t \in db'.tags \ db.tags :
                   /\ t.name \in ToSet(last'.task.tags)
                   /\ \A u \in db.tags : u.name # t.name /\ u.id # t.id
             /\ \A u \in db.tags :
                   u.name \in ToSet(last'.task.tags) =>
                      [task_id |-> SyncedId(last'), tag_id |-> u.id] \in db'.task_tags]_vars

\* The second task was given a tag the first task has and a new one: both
\* tasks are associated with the same tags row, and tags has two rows.
C12_Witness ==
    /\ last.op = "add_task"
    /\ last.id = 2
    /\ Len(last.task.tags) = 2
    /\ Cardinality(db.tags) = 2
    /\ \E t \in db.tags :
          /\ [task_id |-> 1, tag_id |-> t.id] \in db.task_tags
          /\ [task_id |-> 2, tag_id |-> t.id] \in db.task_tags
    /\ Cardinality(LinksOf(db, 1)) = 1
    /\ Cardinality(LinksOf(db, 2)) = 2

\* C13: the rows of tags never go away: a row of one state is, with the
\* same id and name, a row of every later state, whatever add_task,
\* update_task and delete_task calls are made and whether or not a task is
\* still associated with it.
C13_TagsNeverShrink == [][db.tags \subseteq db'.tags]_vars

\* The last task was deleted; both tags rows are still there, and one of
\* them has no association left at all.
C13_Witness ==
    /\ last.op = "delete_task"
    /\ last.ok
    /\ db.tasks = {}
    /\ Cardinality(db.tags) = 2
    /\ \E t \in db.tags : \A l \in db.task_tags : l.tag_id # t.id

\* C14: between operations no connection is open: every operation, and
\* the schema initialisation, has closed the connection it acquired when it
\* returns or raises.
C14_ConnectionsReleased == conns = 0

\* C15: every task_tags row refers to a task id present in tasks and a tag
\* id present in tags, in every reachable state of the store.
C15_ReferentialIntegrity ==
    \A l \in db.task_tags :
        /\ \E r \in db.tasks : r.id = l.task_id
        /\ \E t \in db.tags : t.id = l.tag_id

\* A row whose priority or status column matches no member.
Corrupt(r) ==
    \/ r.priority \notin { p.name : p \in Priority }
    \/ r.status \notin { st.value : st \in Status }

\* C19: get_task on a row whose priority or status matches no member, and
\* get_all_tasks when it selects such a row, raise and return nothing; a
\* Task that is returned has the priority and the status its row holds.
C19_CorruptRowFails ==
    /\ last.op = "get_task" =>
          /\ \A r \in MatchingRows(db, last.task_id) :
                Corrupt(r) => (last.exc \in {"KeyError", "ValueError"} /\ last.found = None)
          /\ last.found # None =>
                \E r \in MatchingRows(db, last.task_id) :
                   /\ last.found[1].priority.name = r.priority
                   /\ last.found[1].status.value = r.status
    /\ last.op = "get_all_tasks" =>
          /\ (\E r \in SelectedRows(db, last.status) : Corrupt(r)) =>
                (last.exc \in {"KeyError", "ValueError"} /\ last.tasks = << >>)
          /\ \A i \in 1..Len(last.tasks) :
                \E r \in MatchingRows(db, last.tasks[i].id[1]) :
                   /\ last.tasks[i].priority.name = r.priority
                   /\ last.tasks[i].status.value = r.status

\* A listing filtered by status selected a row that converts and a row
\* whose priority names no member, and raised KeyError.
C19_Witness ==
    /\ last.op = "get_all_tasks"
    /\ last.status # None
    /\ last.exc = "KeyError"
    /\ \E r \in SelectedRows(db, last.status) : ~Corrupt(r)
    /\ \E r \in SelectedRows(db, last.status) : Corrupt(r)

\* C16: a task built without created_at and updated_at and passed to
\* add_task reads back from get_task with created_at = updated_at.
C16_DefaultTimestampsEqual ==
    last.op = "add_task" =>
        Stored(db, last.id).created_at = Stored(db, last.id).updated_at

\* C18: when add_task(task) has returned, the entity carries the identity
\* of the row stored for it, and update_task on the same entity updates
\* that row.
C18_AddAssignsIdentity ==
    last.op = "add_task" =>
        /\ last.task.id = Some(last.id)
        /\ update_task(db, last.task, DT(clock)).ret

\* C17: Task.from_dict(t.to_dict()) has the id, title, description,
\* priority, status, due_date, tags, created_at and updated_at of t, for
\* every task t: id null or set, any priority and status, due date present
\* or absent, any tag list.
C17_FromDictInvertsToDict ==
    (last.op = "from_dict" /\ last.keys = DictKeys) =>
        /\ last.exc = "none"
        /\ last.made # None
        /\ last.made[1].id = last.task.id
        /\ last.made[1].title = last.task.title
        /\ last.made[1].description = last.task.description
        /\ last.made[1].priority = last.task.priority
        /\ last.made[1].status = last.task.status
        /\ last.made[1].due_date = last.task.due_date
        /\ last.made[1].tags = last.task.tags
        /\ last.made[1].created_at = last.task.created_at
        /\ last.made[1].updated_at = last.task.updated_at

\* A task with no id, a due date, two tags, a priority and a status other
\* than the defaults and timestamps that differ went through to_dict and
\* from_dict, and the clock moved on while from_dict ran.
C17_Witness ==
    /\ last.op = "from_dict"
    /\ last.keys = DictKeys
    /\ last.task.id = None
    /\ last.task.due_date # None
    /\ Len(last.task.tags) = 2
    /\ last.task.priority.name = "HIGH"
    /\ last.task.status.name = "ARCHIVED"
    /\ last.task.created_at = DT(0)
    /\ last.task.updated_at = DT(1)
    /\ last.task.updated_at.us = 1
    /\ clock = 1

\* Writer w has returned from its call.
Returned(w) == txn[w].pc = "done" /\ txn[w].exc = "none"

\* The names both writers' tasks have.
SharedNames == ToSet(txn[1].task.tags) \cap ToSet(txn[2].task.tags)

\* Writer w has made its task.
HasTask(w) == txn[w].pc \notin { "idle", "init" }

\* The names of writer w's task that the task of every writer that has
\* made one has too.
SharedWith(w) ==
    { n \in ToSet(txn[w].task.tags) :
        \A v \in Writers : HasTask(v) => n \in ToSet(txn[v].task.tags) }

\* Writer w's task is associated with the one tags row of name n.
Associated(w, n) ==
    /\ Cardinality({ t \in db.tags : t.name = n }) = 1
    /\ [task_id |-> txn[w].id, tag_id |-> TagId(db, n)] \in db.task_tags

\* C20 as stated: two writers run add_task or update_task at the same time
\* for tasks that have a tag name the tags table does not have yet.
\* However their statements interleave under the write lock, neither
\* raises IntegrityError, tags never has two rows of one name, and when
\* both calls are over there is one tags row of each shared name and both
\* tasks are associated with it.
C20_BothAssociated ==
    /\ \A w \in Writers : HasTask(w) => txn[w].exc # "IntegrityError"
    /\ TagNamesUnique(db)
    /\ (\A w \in Writers : txn[w].pc = "done") =>
          \A n \in SharedNames : \A w \in Writers : Associated(w, n)

\* C20, amended: neither writer raises IntegrityError and tags never has
\* two rows of one name; a writer whose call is over has either returned,
\* and then its task is associated with the one tags row of each shared
\* name, or it waited for the write lock until the connection's timeout
\* and raised OperationalError before any of its statements ran.
C20_ConcurrentTagNoConflict ==
    /\ \A w \in Writers : HasTask(w) => txn[w].exc # "IntegrityError"
    /\ TagNamesUnique(db)
    /\ \A w \in Writers :
          txn[w].pc = "done" =>
             \/ /\ txn[w].exc = "none"
                /\ \A n \in SharedWith(w) : Associated(w, n)
             \/ /\ txn[w].exc = "OperationalError"
                /\ txn[w].waited
                /\ txn[w].id = 0

\* An add_task and an update_task of another task, both with the new name
\* "x", have both returned; the second had to wait for the write lock.
C20_Witness ==
    /\ \A w \in Writers : Returned(w)
    /\ txn[1].op = "add_task"
    /\ txn[2].op = "update_task"
    /\ txn[1].waited \/ txn[2].waited
    /\ txn[1].id # txn[2].id
    /\ "x" \in SharedNames
    /\ Cardinality(db.tags) = 2

\* A list that has some name more than once.
HasDuplicate(q) == \E i, j \in 1..Len(q) : i # j /\ q[i] = q[j]

\* C21: add_task, and update_task of a stored task, with a tag list that
\* has a name more than once return without error (update_task True), and
\* leave one tags row of that name and one association of the task with it.
C21_DuplicateTagNames ==
    [][(/\ last'.op \in { "add_task", "update_task" }
        /\ HasDuplicate(last'.task.tags)
        /\ last'.op = "update_task" =>
              (last'.task.id # None /\ last'.task.id[1] \in Ids(db)))
       => /\ last'.exc = "none"
          /\ last'.op = "update_task" => last'.ok
          /\ \A n \in ToSet(last'.task.tags) :
                /\ Cardinality({ t \in db'.tags : t.name = n }) = 1
                /\ Cardinality({ l \in LinksOf(db', SyncedId(last')) :
                                   \E t \in db'.tags :
                                      t.name = n /\ t.id = l.tag_id }) = 1
          /\ Cardinality(LinksOf(db', SyncedId(last')))
                = Cardinality(ToSet(last'.task.tags))]_vars

\* A stored task was updated with the list x, x while tags had the rows x
\* and y: it has one association, with x.
C21_Witness ==
    /\ UpdateOk
    /\ last.task.tags = << "x", "x" >>
    /\ Cardinality(db.tags) = 2
    /\ LinksOf(db, last.task.id[1])
          = { [task_id |-> last.task.id[1], tag_id |-> TagId(db, "x")] }

\* C25: update_task(task) changes no tasks row but the one with task.id
\* and no task_tags row but those of task.id, whether it returns True or
\* False; with a null id it changes no row at all.
C25_UpdateFrame ==
    [][last'.op = "update_task" =>
          IF last'.task.id = None
          THEN db'.tasks = db.tasks /\ db'.task_tags = db.task_tags
          ELSE /\ OtherRows(db', last'.task.id[1]) = OtherRows(db, last'.task.id[1])
               /\ OtherLinks(db', last'.task.id[1]) = OtherLinks(db, last'.task.id[1])]_vars

\* One of two stored tasks was updated and given two tags; the other task
\* has a title the update did not write, and an association.
C25_Witness ==
    /\ UpdateOk
    /\ Len(last.task.tags) = 2
    /\ Cardinality(db.tasks) = 2
    /\ \E r \in OtherRows(db, last.task.id[1]) :
          /\ r.title # last.task.title
          /\ LinksOf(db, r.id) # {}

\* The key resolves to an entry of the current settings tree.
Resolves(s, key) == Walk(Tree(s), split(key)).exc = "none"

\* C22: after reset_to_defaults() on a Settings object, whatever set and
\* load calls came before, its get(k) returns the built-in default of every
\* default key k.
C22_ResetRestoresDefaults ==
    last.op = "reset_to_defaults" =>
        \A section \in DOMAIN DEFAULTS : \A k \in DOMAIN DEFAULTS[section] :
            get(Object(last.obj), Key(<<section, k>>), PyNone) = DEFAULTS[section][k]

\* C23: key in settings is True exactly when the dotted key resolves to an
\* entry of the current settings tree, and False when its path is absent.
C23_ContainsTestsExistence ==
    last.op = "contains" => (last.ok <=> Resolves(Object(last.obj), last.key))

Restricted(d, w) ==
    { t.id[1] : t \in { x \in ToSet(get_all_tasks(d, None).ret) :
                          /\ FilterKeeps(x, w.current_filter, w.now)
                          /\ SearchKeeps(x, lower(w.search_box)) } }

====
